---- MODULE Spec2Model ----
(***************************************************************************)
(* Model of canal/sync.go: the binlog sync loop (Canal.startSyncBinlog),   *)
(* the row-event handler (Canal.handleRowsEvent), the schema filter        *)
(* (Canal.isSkipedSchema), the ALTER TABLE detector (expAlterTable) and    *)
(* the position waiters (Canal.WaitUntilPos, Canal.CatchMasterPos).        *)
(*                                                                         *)
(* One loop iteration is one action: the loop is sequential and an event   *)
(* taken off the stream is processed to the end of the iteration before    *)
(* the next pull.  Log file names are modelled by their generation number  *)
(* (0, 1, ...), so that the order of names is the order of the numbers.    *)
(***************************************************************************)
EXTENDS Integers, Sequences, FiniteSets, TLC

\* ---------------------------------------------------------------- bounds
\* Longest binlog stream (events the transport delivers).
MaxEvents == 2
\* Highest log file generation a RotateEvent may name.
MaxFile == 1
\* Most consecutive DeadlineExceeded results of GetEvent.
MaxTimeouts == 2
\* Most times a stopped session is resumed.
MaxResumes == 1
\* Most calls of isSkipedSchema one caller makes.
MaxCalls == 2
\* Longest timeout WaitUntilPos is given, in seconds.
MaxWaitSeconds == 1

\* ------------------------------------------------------ program constants
\* time.Second, the floor of the loop's timeout variable, in seconds.
Second == 1
\* The context deadline of every GetEvent pull, 2*time.Second, in seconds.
CtxTimeout == 2
\* The timeout WaitUntilPos takes when it is given none, in seconds.
DefaultWaitSeconds == 60
\* The polls of WaitUntilPos in a second: it sleeps 100*time.Millisecond.
PollsPerSecond == 10

\* ---------------------------------------------------------------- values
Position(name, pos) == [name |-> name, pos |-> pos]

\* mysql.Position.Compare: by file name, then by offset.
Compare(a, b) ==
    IF a.name > b.name THEN 1
    ELSE IF a.name < b.name THEN -1
    ELSE IF a.pos > b.pos THEN 1
    ELSE IF a.pos < b.pos THEN -1
    ELSE 0

\* Header event types of a RowsEvent (replication.EventType).
WRITE_ROWS_EVENTv0 == "WRITE_ROWS_EVENTv0"
WRITE_ROWS_EVENTv1 == "WRITE_ROWS_EVENTv1"
WRITE_ROWS_EVENTv2 == "WRITE_ROWS_EVENTv2"
UPDATE_ROWS_EVENTv1 == "UPDATE_ROWS_EVENTv1"
UPDATE_ROWS_EVENTv2 == "UPDATE_ROWS_EVENTv2"
DELETE_ROWS_EVENTv1 == "DELETE_ROWS_EVENTv1"
DELETE_ROWS_EVENTv2 == "DELETE_ROWS_EVENTv2"

InsertAction == "insert"
UpdateAction == "update"
DeleteAction == "delete"

\* Absent values.
NoString == ""
NoText == <<>>
NoQuery == <<>>
NoRecord == [table |-> <<>>, action |-> NoString, rows |-> <<>>]

\* A replication.BinlogEvent: its header (logPos, etype) and its payload.
BinlogEvent(kind, logPos, etype, nextLogName, position, schema, table, rows, query) ==
    [kind |-> kind, logPos |-> logPos, etype |-> etype,
     nextLogName |-> nextLogName, position |-> position,
     schema |-> schema, table |-> table, rows |-> rows, query |-> query]

NoEvent == BinlogEvent("none", 0, NoString, 0, 0, NoText, NoText, <<>>, NoQuery)

\* ------------------------------------------------- the ALTER TABLE detector
\* A statement is the sequence of its characters, each a one-character string.
\* The pattern is
\*   (?i)^ALTER\sTABLE\s.*?`{0,1}(.*?)`{0,1}\.{0,1}`{0,1}([^`\.]+?)`{0,1}\s.*
\* matched as regexp.FindSubmatch does: anchored at the start, the first match
\* in the order of preference (lazy: shortest first, greedy: longest first).

\* The back quote, which the string syntax cannot hold, is this token.
BackQuote == "BACKQUOTE"

\* The character of s at i, or the empty string past the end.
At(s, i) == IF i \in 1..Len(s) THEN s[i] ELSE ""

\* \s of the pattern syntax.
IsSpace(c) == c \in {" ", "\t", "\n", "\f", "\r"}

\* . of the pattern syntax: any character but a newline.
IsDot(c) == c # "" /\ c # "\n"

\* (?i): the upper-case form of the letters of the pattern's keywords.
Fold(c) ==
    CASE c = "a" -> "A" [] c = "l" -> "L" [] c = "t" -> "T" [] c = "e" -> "E"
      [] c = "r" -> "R" [] c = "b" -> "B" [] OTHER -> c

\* ^ALTER\sTABLE\s
AlterTablePrefix(s) ==
    /\ \A i \in 1..5 : Fold(At(s, i)) = <<"A", "L", "T", "E", "R">>[i]
    /\ IsSpace(At(s, 6))
    /\ \A i \in 1..5 : Fold(At(s, 6 + i)) = <<"T", "A", "B", "L", "E">>[i]
    /\ IsSpace(At(s, 12))

\* ([^`\.]+?)`{0,1}\s.* from p, the group tried with n characters and then
\* with more: the length of the group in the first match, 0 when none.
RECURSIVE MatchTable(_, _, _)
MatchTable(s, p, n) ==
    LET q == p + n
    IN  IF At(s, q - 1) \in {"", BackQuote, "."} THEN 0
        ELSE IF \/ At(s, q) = BackQuote /\ IsSpace(At(s, q + 1))
                \/ IsSpace(At(s, q))
             THEN n
        ELSE MatchTable(s, p, n + 1)

\* The three optional separators `{0,1}\.{0,1}`{0,1} in order of preference.
Separators ==
    << <<1, 1, 1>>, <<1, 1, 0>>, <<1, 0, 1>>, <<1, 0, 0>>,
       <<0, 1, 1>>, <<0, 1, 0>>, <<0, 0, 1>>, <<0, 0, 0>> >>

SeparatorsAt(s, p, k) ==
    /\ k[1] = 1 => At(s, p) = BackQuote
    /\ k[2] = 1 => At(s, p + k[1]) = "."
    /\ k[3] = 1 => At(s, p + k[1] + k[2]) = BackQuote

\* `{0,1}\.{0,1}`{0,1}([^`\.]+?)`{0,1}\s.* from p: <<start, length>> of the
\* second group in the first match, <<>> when none.
MatchSeparators(s, p) ==
    LET start(i) == p + Separators[i][1] + Separators[i][2] + Separators[i][3]
        good == {i \in 1..Len(Separators) :
                    /\ SeparatorsAt(s, p, Separators[i])
                    /\ MatchTable(s, start(i), 1) > 0}
    IN  IF good = {} THEN <<>>
        ELSE LET i == CHOOSE j \in good : \A k \in good : j <= k
             IN  <<start(i), MatchTable(s, start(i), 1)>>

\* (.*?) from p tried with n characters and then with more, and the rest of
\* the pattern after it: <<mb[1], mb[2]>> of the first match, <<>> when none.
RECURSIVE MatchSchema(_, _, _)
MatchSchema(s, p, n) ==
    IF n > 0 /\ ~IsDot(At(s, p + n - 1)) THEN <<>>
    ELSE LET t == MatchSeparators(s, p + n)
         IN  IF t # <<>>
             THEN <<SubSeq(s, p, p + n - 1), SubSeq(s, t[1], t[1] + t[2] - 1)>>
             ELSE MatchSchema(s, p, n + 1)

\* `{0,1}(.*?)... from p: the back quote is taken when there is one, and
\* given back when nothing matches after it.
MatchQuote(s, p) ==
    LET quoted == IF At(s, p) = BackQuote THEN MatchSchema(s, p + 1, 0) ELSE <<>>
    IN  IF quoted # <<>> THEN quoted ELSE MatchSchema(s, p, 0)

\* .*?`{0,1}(.*?)... from p, n characters skipped and then more.
RECURSIVE MatchSkip(_, _, _)
MatchSkip(s, p, n) ==
    IF n > 0 /\ ~IsDot(At(s, p + n - 1)) THEN <<>>
    ELSE LET m == MatchQuote(s, p + n)
         IN  IF m # <<>> THEN m ELSE MatchSkip(s, p, n + 1)

\* expAlterTable.FindSubmatch(query): <<mb[1], mb[2]>>, or <<>> for nil.
expAlterTable(query) ==
    IF AlterTablePrefix(query) THEN MatchSkip(query, 13, 0) ELSE <<>>

\* ------------------------------------------------------------------ state
VARIABLES
    pc,               \* "start", "running" or "returned": where startSyncBinlog is
    err,              \* the error startSyncBinlog returned, "nil" while it runs
    TableDB,          \* c.cfg.Dump.TableDB, the configured scope ("" for none)
    stream,           \* the events of the binlog the transport has delivered
    cursor,           \* how many of them the running session has received
    pos,              \* the loop's local pos
    timeout,          \* the loop's local timeout, in seconds
    forceSavePos,     \* the loop's local forceSavePos
    posSaved,         \* the loop's local posSaved
    master,           \* c.master: the tracker's position, what master.Pos() returns
    persisted,        \* the position master.Save last wrote to its durable store
    sink,             \* the position SavePos last wrote, <<>> before the first
    skipedSchemaList, \* the package's skipedSchemaList
    dispatched,       \* the stream's events handed to the downstream handlers
    txOpen,           \* a row change was dispatched and no XIDEvent came since
    consec,           \* DeadlineExceeded results since the last received event
    session,          \* how many times the session was resumed
    iter,             \* what the last loop iteration did
    calls,            \* each caller of isSkipedSchema: where it is in the call
    skipedSchemaLock, \* the package's skipedSchemaLock: the caller holding it
    logged,           \* the "skiped" notes of the concurrent callers, in order
    waiter,           \* the caller of WaitUntilPos: where it is in the call
    now               \* the time, in polling intervals

vars == <<pc, err, TableDB, stream, cursor, pos, timeout, forceSavePos, posSaved,
          master, persisted, sink, skipedSchemaList, dispatched, txOpen, consec,
          session, iter, calls, skipedSchemaLock, logged, waiter, now>>

\* The state of startSyncBinlog alone, of the concurrent callers of
\* isSkipedSchema, and of the caller of WaitUntilPos.
loopVars == <<pc, err, stream, cursor, pos, timeout, forceSavePos, posSaved,
              persisted, sink, dispatched, txOpen, consec, session, iter>>
filterVars == <<calls, skipedSchemaLock, logged>>
waitVars == <<waiter, now>>

\* The position the binlog starts at.
StartPos == Position(0, 0)

\* What an iteration records of itself.
NoIter ==
    [got |-> "none", ev |-> NoEvent, wait |-> 0, k |-> 0, timeout |-> 0,
     getTable |-> <<>>, record |-> NoRecord, travel |-> FALSE, note |-> <<>>,
     cleared |-> <<>>, update |-> <<>>, save |-> <<>>,
     inWindow |-> FALSE, saved |-> [did |-> FALSE, failed |-> FALSE],
     handler |-> FALSE, savePos |-> <<>>, sinkFailed |-> FALSE]

\* The goroutines that call isSkipedSchema at the same time, and the caller
\* of that name that holds skipedSchemaLock ("" when it is free).
Callers == {"c1", "c2"}
NoCaller == ""

\* A caller outside isSkipedSchema: the schema and the result of its last
\* call (<<>> before the first) and the number of calls it has made.
IdleCall == [pc |-> "idle", schema |-> NoText, found |-> FALSE, ret |-> <<>>, made |-> 0]

\* Nobody has called isSkipedSchema.
NoCalls ==
    /\ calls = [p \in Callers |-> IdleCall]
    /\ skipedSchemaLock = NoCaller
    /\ logged = <<>>

\* The caller of WaitUntilPos outside the call: the target and the timeout
\* it was given, the time its timer was made and the time it fires, the
\* positions it has read, what it returned, and whether the tracker was at
\* the target at a time the timer had not fired.
IdleWaiter ==
    [pc |-> "idle", target |-> StartPos, given |-> 0, made |-> 0, fires |-> 0,
     reads |-> 0, curpos |-> StartPos, ret |-> "none", inTime |-> FALSE]

\* Nobody has called WaitUntilPos.
NoWait ==
    /\ waiter = IdleWaiter
    /\ now = 0

\* ------------------------------------------------------------- the stream
\* The position of the binlog after the first i events of s: a RotateEvent
\* names it, any other event ends at its header's LogPos in the same file.
RECURSIVE StreamPos(_, _)
StreamPos(s, i) ==
    IF i = 0 THEN StartPos
    ELSE IF s[i].kind = "Rotate" THEN Position(s[i].nextLogName, s[i].position)
    ELSE Position(StreamPos(s, i - 1).name, s[i].logPos)

\* Names are texts: sequences of characters, like the statements.
SchemaApp == <<"a", "p", "p">>
SchemaOther == <<"o", "t", "h", "e", "r">>
TableT == <<"t">>
Schemas == {SchemaApp, SchemaOther}
Tables == {TableT}
StreamRowsTypes == {UPDATE_ROWS_EVENTv1, WRITE_ROWS_EVENTv0}
Rows == << <<1, "a">> >>

\* ALTER TABLE t X;  alter table `app`.`t` x;  CREATE TABLE t X
QueryAlter == <<"A", "L", "T", "E", "R", " ", "T", "A", "B", "L", "E", " ", "t", " ", "X">>
QueryAlterQualified ==
    <<"a", "l", "t", "e", "r", " ", "t", "a", "b", "l", "e", " ",
      BackQuote, "a", "p", "p", BackQuote, ".", BackQuote, "t", BackQuote, " ", "x">>
QueryCreate == <<"C", "R", "E", "A", "T", "E", " ", "T", "A", "B", "L", "E", " ", "t", " ", "X">>
StreamQueries == {QueryAlter, QueryAlterQualified, QueryCreate}

\* The events that may follow the stream s: each ends one byte after the last,
\* a RotateEvent at the end of a file names the start of the next, and the one
\* the master makes up (header LogPos 0) names the position the stream is at.
NewEvents(s) ==
    LET at == StreamPos(s, Len(s))
        next == at.pos + 1
    IN  {BinlogEvent("Rotate", next, NoString, n, 0, NoText, NoText, <<>>, NoQuery) :
            n \in IF at.name < MaxFile THEN {at.name + 1} ELSE {}}
        \cup {BinlogEvent("Rotate", 0, NoString, at.name, at.pos, NoText, NoText, <<>>, NoQuery)}
        \cup {BinlogEvent("Rows", next, t, 0, 0, sc, tb, Rows, NoQuery) :
                t \in StreamRowsTypes, sc \in Schemas, tb \in Tables}
        \cup {BinlogEvent("XID", next, NoString, 0, 0, NoText, NoText, <<>>, NoQuery)}
        \cup {BinlogEvent("Query", next, NoString, 0, 0, SchemaOther, NoText, <<>>, q) :
                q \in StreamQueries}
        \cup {BinlogEvent("Other", next, NoString, 0, 0, NoText, NoText, <<>>, NoQuery)}

\* What GetEvent may return next: the next event of the stream when the
\* session is behind it, a new event of the binlog otherwise.
Deliverable ==
    IF cursor < Len(stream) THEN {stream[cursor + 1]}
    ELSE IF Len(stream) < MaxEvents THEN NewEvents(stream)
    ELSE {}

Received(e) ==
    /\ stream' = IF cursor < Len(stream) THEN stream ELSE Append(stream, e)
    /\ cursor' = cursor + 1

Init ==
    /\ pc = "start"
    /\ err = "nil"
    /\ TableDB \in {NoText, SchemaApp}
    /\ stream = <<>>
    /\ cursor = 0
    /\ pos = StartPos
    /\ timeout = Second
    /\ forceSavePos = FALSE
    /\ posSaved = FALSE
    /\ master = StartPos
    /\ persisted = StartPos
    /\ sink = <<>>
    /\ skipedSchemaList = <<>>
    /\ dispatched = {}
    /\ txOpen = FALSE
    /\ consec = 0
    /\ session = 0
    /\ iter = NoIter
    /\ NoCalls
    /\ NoWait

\* ------------------------------------------------------- the schema filter
\* isSkipedSchema(schema) with the skip list as it finds it: its result, the
\* skip list as it leaves it, and whether it logged the "skiped" note.
isSkipedSchema(list, schema) ==
    IF TableDB # NoText /\ TableDB # schema
    THEN LET found == \E i \in 1..Len(list) : list[i] = schema
         IN  [ret |-> TRUE,
              list |-> IF found THEN list ELSE Append(list, schema),
              note |-> IF found THEN <<>> ELSE <<schema>>]
    ELSE [ret |-> FALSE, list |-> list, note |-> <<>>]

\* --------------------------------------------------------- the row handler
\* RowsAction with every other event type taken for a write.
RowsActionDefaultInsert(etype) ==
    CASE etype \in {DELETE_ROWS_EVENTv1, DELETE_ROWS_EVENTv2} -> DeleteAction
      [] etype \in {UPDATE_ROWS_EVENTv1, UPDATE_ROWS_EVENTv2} -> UpdateAction
      [] OTHER -> InsertAction

\* RowsAction with the DELETE_ROWS case giving the action of UPDATE_ROWS.
RowsActionDeleteAsUpdate(etype) ==
    CASE etype \in {WRITE_ROWS_EVENTv1, WRITE_ROWS_EVENTv2} -> InsertAction
      [] etype \in {DELETE_ROWS_EVENTv1, DELETE_ROWS_EVENTv2} -> UpdateAction
      [] etype \in {UPDATE_ROWS_EVENTv1, UPDATE_ROWS_EVENTv2} -> UpdateAction
      [] OTHER -> NoString

\* The switch on e.Header.EventType; NoString stands for the default branch.
RowsAction(etype) ==
    CASE etype \in {WRITE_ROWS_EVENTv1, WRITE_ROWS_EVENTv2} -> InsertAction
      [] etype \in {DELETE_ROWS_EVENTv1, DELETE_ROWS_EVENTv2} -> DeleteAction
      [] etype \in {UPDATE_ROWS_EVENTv1, UPDATE_ROWS_EVENTv2} -> UpdateAction
      [] OTHER -> NoString

\* c.GetTable(schema, table) when it resolves: the table's metadata.
GetTable(schema, table) == <<schema, table>>

\* newRowsEvent(table, action, rows): the change record.
newRowsEvent(table, action, rows) == [table |-> table, action |-> action, rows |-> rows]

\* handleRowsEvent without the schema filter's early return.
handleRowsEventNoFilter(e, resolves, accepted) ==
    LET skip == isSkipedSchema(skipedSchemaList, e.schema)
        action == RowsAction(e.etype)
        base == [err |-> "nil", list |-> skip.list, note |-> skip.note,
                 getTable |-> <<>>, record |-> NoRecord, travel |-> FALSE]
        looked == [base EXCEPT !.getTable = <<<<e.schema, e.table>>>>]
    IN  IF ~resolves THEN [looked EXCEPT !.err = "resolve"]
        ELSE IF action = NoString THEN [looked EXCEPT !.err = "unsupported"]
        ELSE [looked EXCEPT
                !.record = newRowsEvent(GetTable(e.schema, e.table), action, e.rows),
                !.travel = TRUE,
                !.err = IF accepted THEN "nil" ELSE "handler"]

\* handleRowsEvent(e), given whether GetTable resolves and whether the
\* downstream handlers accept the record: the error it returns ("nil" for
\* none) and what it did on the way.
handleRowsEvent(e, resolves, accepted) ==
    LET skip == isSkipedSchema(skipedSchemaList, e.schema)
        action == RowsAction(e.etype)
        base == [err |-> "nil", list |-> skip.list, note |-> skip.note,
                 getTable |-> <<>>, record |-> NoRecord, travel |-> FALSE]
        looked == [base EXCEPT !.getTable = <<<<e.schema, e.table>>>>]
    IN  IF skip.ret THEN base
        ELSE IF ~resolves THEN [looked EXCEPT !.err = "resolve"]
        ELSE IF action = NoString THEN [looked EXCEPT !.err = "unsupported"]
        ELSE [looked EXCEPT
                !.record = newRowsEvent(GetTable(e.schema, e.table), action, e.rows),
                !.travel = TRUE,
                !.err = IF accepted THEN "nil" ELSE "handler"]

\* ------------------------------------------------------------ the tracker
\* master.Save(force), given whether the call falls inside the throttle
\* window of the last write and whether the durable write goes wrong:
\* whether it persisted, and whether it returned an error.
masterSave(force, inWindow, writeFails) ==
    IF ~force /\ inWindow THEN [did |-> FALSE, failed |-> FALSE]
    ELSE IF writeFails THEN [did |-> FALSE, failed |-> TRUE]
    ELSE [did |-> TRUE, failed |-> FALSE]

\* ------------------------------------------------------------ the sync loop
\* Lines 24-35: the session starts from the tracker's position.
StartSync ==
    /\ pc = "start"
    /\ pos' = master
    /\ timeout' = Second
    /\ forceSavePos' = FALSE
    /\ posSaved' = FALSE
    /\ \E started \in BOOLEAN :
        /\ pc' = IF started THEN "running" ELSE "returned"
        /\ err' = IF started THEN "nil" ELSE "startsync"
    /\ UNCHANGED <<filterVars, waitVars>>
    /\ UNCHANGED <<TableDB, stream, cursor, master, persisted, sink,
                   skipedSchemaList, dispatched, txOpen, consec, session, iter>>

\* Lines 37-39: one pull of GetEvent, with the deadline it was given.
Pull(got, e) ==
    [NoIter EXCEPT !.got = got, !.ev = e, !.wait = CtxTimeout,
                   !.k = consec, !.timeout = timeout]

\* GetEventTimeout with the deadline taken for a failure of the transport.
GetEventTimeoutFatal ==
    /\ pc = "running"
    /\ consec < MaxTimeouts
    /\ pc' = "returned"
    /\ err' = "transport"
    /\ timeout' = 2 * timeout
    /\ consec' = consec + 1
    /\ iter' = Pull("timeout", NoEvent)
    /\ UNCHANGED <<filterVars, waitVars>>
    /\ UNCHANGED <<TableDB, stream, cursor, pos, forceSavePos, posSaved,
                   master, persisted, sink, skipedSchemaList, dispatched, txOpen,
                   session>>

\* Lines 41-44: GetEvent ran into its deadline.
GetEventTimeout ==
    /\ pc = "running"
    /\ consec < MaxTimeouts
    /\ timeout' = 2 * timeout
    /\ consec' = consec + 1
    /\ iter' = Pull("timeout", NoEvent)
    /\ UNCHANGED <<filterVars, waitVars>>
    /\ UNCHANGED <<pc, err, TableDB, stream, cursor, pos, forceSavePos, posSaved,
                   master, persisted, sink, skipedSchemaList, dispatched, txOpen,
                   session>>

\* GetEventError handing the loop's position to the tracker before it returns.
GetEventErrorUpdates ==
    /\ pc = "running"
    /\ pc' = "returned"
    /\ err' = "transport"
    /\ master' = pos
    /\ iter' = Pull("error", NoEvent)
    /\ UNCHANGED <<filterVars, waitVars>>
    /\ UNCHANGED <<TableDB, stream, cursor, pos, timeout, forceSavePos, posSaved,
                   persisted, sink, skipedSchemaList, dispatched, txOpen,
                   consec, session>>

\* Lines 46-48: GetEvent failed.
GetEventError ==
    /\ pc = "running"
    /\ pc' = "returned"
    /\ err' = "transport"
    /\ iter' = Pull("error", NoEvent)
    /\ UNCHANGED <<filterVars, waitVars>>
    /\ UNCHANGED <<TableDB, stream, cursor, pos, timeout, forceSavePos, posSaved,
                   master, persisted, sink, skipedSchemaList, dispatched, txOpen,
                   consec, session>>

\* Lines 50-55: what every received event does before the switch.
Advance(e) ==
    /\ Received(e)
    /\ timeout' = Second
    /\ consec' = 0

\* SaveStep with the sink written whether or not master.Save persisted.
SaveStepAlwaysMirrors(it, p, force) ==
    \E inWindow \in BOOLEAN, writeFails \in BOOLEAN,
       registered \in BOOLEAN, sinkFails \in BOOLEAN :
        LET r == masterSave(force, inWindow, writeFails)
            write == ~r.failed /\ registered
        IN  /\ master' = p
            /\ persisted' = IF r.did THEN p ELSE persisted
            /\ posSaved' = r.did
            /\ sink' = IF write /\ ~sinkFails THEN <<p>> ELSE sink
            /\ pc' = IF r.failed \/ (write /\ sinkFails) THEN "returned" ELSE "running"
            /\ err' = IF r.failed THEN "save"
                      ELSE IF write /\ sinkFails THEN "savepos"
                      ELSE "nil"
            /\ iter' = [it EXCEPT !.update = <<p>>, !.save = <<force>>,
                                  !.inWindow = inWindow, !.saved = r,
                                  !.handler = r.did /\ registered,
                                  !.savePos = IF write THEN <<p>> ELSE <<>>,
                                  !.sinkFailed = write /\ sinkFails]

\* Lines 94-105, the save step, for the iteration it with position p and the
\* forced flag force.
SaveStep(it, p, force) ==
    \E inWindow \in BOOLEAN, writeFails \in BOOLEAN,
       registered \in BOOLEAN, sinkFails \in BOOLEAN :
        LET r == masterSave(force, inWindow, writeFails)
            write == r.did /\ ~r.failed /\ registered
        IN  /\ master' = p
            /\ persisted' = IF r.did THEN p ELSE persisted
            /\ posSaved' = r.did
            /\ sink' = IF write /\ ~sinkFails THEN <<p>> ELSE sink
            /\ pc' = IF r.failed \/ (write /\ sinkFails) THEN "returned" ELSE "running"
            /\ err' = IF r.failed THEN "save"
                      ELSE IF write /\ sinkFails THEN "savepos"
                      ELSE "nil"
            /\ iter' = [it EXCEPT !.update = <<p>>, !.save = <<force>>,
                                  !.inWindow = inWindow, !.saved = r,
                                  !.handler = r.did /\ registered,
                                  !.savePos = IF write THEN <<p>> ELSE <<>>,
                                  !.sinkFailed = write /\ sinkFails]

\* OnRotateEvent with the header's LogPos applied after the payload's Position.
OnRotateEventHeaderLast ==
    /\ pc = "running"
    /\ \E e \in Deliverable :
        /\ e.kind = "Rotate"
        /\ Advance(e)
        /\ pos' = Position(e.nextLogName, e.logPos)
        /\ forceSavePos' = TRUE
        /\ SaveStep(Pull("event", e), pos', forceSavePos')
    /\ UNCHANGED <<filterVars, waitVars>>
    /\ UNCHANGED <<TableDB, skipedSchemaList, dispatched, txOpen, session>>

\* Lines 62-67 and the save step.  The offsets of the stream fit a uint32, so
\* that uint32(e.Position) is e.Position.
OnRotateEvent ==
    /\ pc = "running"
    /\ \E e \in Deliverable :
        /\ e.kind = "Rotate"
        /\ Advance(e)
        /\ pos' = Position(e.nextLogName, e.position)
        /\ forceSavePos' = TRUE
        /\ SaveStep(Pull("event", e), pos', forceSavePos')
    /\ UNCHANGED <<filterVars, waitVars>>
    /\ UNCHANGED <<TableDB, skipedSchemaList, dispatched, txOpen, session>>

\* OnRowsEvent with the error of handleRowsEvent logged and not returned.
OnRowsEventSwallows ==
    /\ pc = "running"
    /\ \E e \in Deliverable, resolves \in BOOLEAN, accepted \in BOOLEAN :
        LET h == handleRowsEvent(e, resolves, accepted)
        IN  /\ e.kind = "Rows"
            /\ Advance(e)
            /\ pos' = [pos EXCEPT !.pos = e.logPos]
            /\ forceSavePos' = FALSE
            /\ skipedSchemaList' = h.list
            /\ dispatched' = IF h.travel /\ h.err = "nil"
                             THEN dispatched \cup {cursor + 1} ELSE dispatched
            /\ txOpen' = (txOpen \/ (h.travel /\ h.err = "nil"))
            /\ iter' = [Pull("event", e) EXCEPT !.getTable = h.getTable,
                            !.record = h.record, !.travel = h.travel, !.note = h.note]
    /\ UNCHANGED <<filterVars, waitVars>>
    /\ UNCHANGED <<pc, err, TableDB, posSaved, master, persisted, sink, session>>

\* Lines 68-74.
OnRowsEvent ==
    /\ pc = "running"
    /\ \E e \in Deliverable, resolves \in BOOLEAN, accepted \in BOOLEAN :
        LET h == handleRowsEvent(e, resolves, accepted)
        IN  /\ e.kind = "Rows"
            /\ Advance(e)
            /\ pos' = [pos EXCEPT !.pos = e.logPos]
            /\ forceSavePos' = FALSE
            /\ skipedSchemaList' = h.list
            /\ dispatched' = IF h.travel /\ h.err = "nil"
                             THEN dispatched \cup {cursor + 1} ELSE dispatched
            /\ txOpen' = (txOpen \/ (h.travel /\ h.err = "nil"))
            /\ pc' = IF h.err = "nil" THEN "running" ELSE "returned"
            /\ err' = h.err
            /\ iter' = [Pull("event", e) EXCEPT !.getTable = h.getTable,
                            !.record = h.record, !.travel = h.travel, !.note = h.note]
    /\ UNCHANGED <<filterVars, waitVars>>
    /\ UNCHANGED <<TableDB, posSaved, master, persisted, sink, session>>

\* OnXIDEvent without line 55: forceSavePos is what the last iteration left.
OnXIDEventKeepsForce ==
    /\ pc = "running"
    /\ \E e \in Deliverable :
        /\ e.kind = "XID"
        /\ Advance(e)
        /\ pos' = [pos EXCEPT !.pos = e.logPos]
        /\ forceSavePos' = forceSavePos
        /\ txOpen' = FALSE
        /\ SaveStep(Pull("event", e), pos', forceSavePos')
    /\ UNCHANGED <<filterVars, waitVars>>
    /\ UNCHANGED <<TableDB, skipedSchemaList, dispatched, session>>

\* OnXIDEvent handing master.Update the position of before the event.
OnXIDEventStalePos ==
    /\ pc = "running"
    /\ \E e \in Deliverable :
        /\ e.kind = "XID"
        /\ Advance(e)
        /\ pos' = [pos EXCEPT !.pos = e.logPos]
        /\ forceSavePos' = FALSE
        /\ txOpen' = FALSE
        /\ SaveStep(Pull("event", e), pos, forceSavePos')
    /\ UNCHANGED <<filterVars, waitVars>>
    /\ UNCHANGED <<TableDB, skipedSchemaList, dispatched, session>>

\* Lines 75-76 and the save step.
OnXIDEvent ==
    /\ pc = "running"
    /\ \E e \in Deliverable :
        /\ e.kind = "XID"
        /\ Advance(e)
        /\ pos' = [pos EXCEPT !.pos = e.logPos]
        /\ forceSavePos' = FALSE
        /\ txOpen' = FALSE
        /\ SaveStep(Pull("event", e), pos', forceSavePos')
    /\ UNCHANGED <<filterVars, waitVars>>
    /\ UNCHANGED <<TableDB, skipedSchemaList, dispatched, session>>

\* OnQueryEvent without the fallback to the event's schema.
OnQueryEventNoFallback ==
    /\ pc = "running"
    /\ \E e \in Deliverable :
        LET mb == expAlterTable(e.query)
        IN  /\ e.kind = "Query"
            /\ Advance(e)
            /\ pos' = [pos EXCEPT !.pos = e.logPos]
            /\ IF mb # <<>>
               THEN /\ forceSavePos' = TRUE
                    /\ SaveStep([Pull("event", e) EXCEPT !.cleared = <<<<mb[1], mb[2]>>>>],
                                pos', forceSavePos')
               ELSE /\ forceSavePos' = FALSE
                    /\ iter' = Pull("event", e)
                    /\ UNCHANGED <<pc, err, posSaved, master, persisted, sink>>
    /\ UNCHANGED <<filterVars, waitVars>>
    /\ UNCHANGED <<TableDB, skipedSchemaList, dispatched, txOpen, session>>

\* Lines 77-89 and, for a statement the pattern matches, the save step.
OnQueryEvent ==
    /\ pc = "running"
    /\ \E e \in Deliverable :
        LET mb == expAlterTable(e.query)
            schema == IF Len(mb[1]) = 0 THEN e.schema ELSE mb[1]
        IN  /\ e.kind = "Query"
            /\ Advance(e)
            /\ pos' = [pos EXCEPT !.pos = e.logPos]
            /\ IF mb # <<>>
               THEN /\ forceSavePos' = TRUE
                    /\ SaveStep([Pull("event", e) EXCEPT !.cleared = <<<<schema, mb[2]>>>>],
                                pos', forceSavePos')
               ELSE /\ forceSavePos' = FALSE
                    /\ iter' = Pull("event", e)
                    /\ UNCHANGED <<pc, err, posSaved, master, persisted, sink>>
    /\ UNCHANGED <<filterVars, waitVars>>
    /\ UNCHANGED <<TableDB, skipedSchemaList, dispatched, txOpen, session>>

\* OnOtherEvent without the continue of the default branch.
OnOtherEventSaves ==
    /\ pc = "running"
    /\ \E e \in Deliverable :
        /\ e.kind = "Other"
        /\ Advance(e)
        /\ pos' = [pos EXCEPT !.pos = e.logPos]
        /\ forceSavePos' = FALSE
        /\ SaveStep(Pull("event", e), pos', forceSavePos')
    /\ UNCHANGED <<filterVars, waitVars>>
    /\ UNCHANGED <<TableDB, skipedSchemaList, dispatched, txOpen, session>>

\* Lines 90-91: any other event.
OnOtherEvent ==
    /\ pc = "running"
    /\ \E e \in Deliverable :
        /\ e.kind = "Other"
        /\ Advance(e)
        /\ pos' = [pos EXCEPT !.pos = e.logPos]
        /\ forceSavePos' = FALSE
        /\ iter' = Pull("event", e)
    /\ UNCHANGED <<filterVars, waitVars>>
    /\ UNCHANGED <<pc, err, TableDB, posSaved, master, persisted, sink,
                   skipedSchemaList, dispatched, txOpen, session>>

Next ==
    \/ StartSync
    \/ GetEventTimeout
    \/ GetEventError
    \/ OnRotateEvent
    \/ OnRowsEvent
    \/ OnXIDEvent
    \/ OnQueryEvent
    \/ OnOtherEvent

Spec == Init /\ [][Next]_vars

\* ------------------------------------------------------ stop and resume
\* The session stops where it is (a fatal error, or the process dies between
\* two iterations) and a new one resumes from the last persisted position:
\* the tracker is loaded from the durable store, the package state is new,
\* and the transport delivers the events that end after that position.
Resume ==
    /\ pc \in {"running", "returned"}
    /\ session < MaxResumes
    /\ session' = session + 1
    /\ pc' = "start"
    /\ err' = "nil"
    /\ master' = persisted
    /\ cursor' = Cardinality({i \in 1..Len(stream) :
                                 Compare(StreamPos(stream, i), persisted) <= 0})
    /\ skipedSchemaList' = <<>>
    /\ txOpen' = FALSE
    /\ consec' = 0
    /\ iter' = NoIter
    /\ pos' = persisted
    /\ timeout' = Second
    /\ forceSavePos' = FALSE
    /\ posSaved' = FALSE
    /\ UNCHANGED <<filterVars, waitVars>>
    /\ UNCHANGED <<TableDB, stream, persisted, sink, dispatched>>

NextResume ==
    \/ Next
    \/ Resume

SpecResume == Init /\ [][NextResume]_vars

\* ------------------------------------ isSkipedSchema, called concurrently
\* The same function, step by step, for callers that run at the same time:
\* the steps are the places where another goroutine can run in between.
SchemaSys == <<"s", "y", "s">>
FilterSchemas == Schemas \cup {SchemaSys}

\* Line 113: the scope test; a schema in scope returns false at line 131.
FilterCall(p) ==
    /\ calls[p].pc = "idle"
    /\ calls[p].made < MaxCalls
    /\ \E schema \in FilterSchemas :
        calls' = [calls EXCEPT ![p] =
            IF TableDB # NoText /\ TableDB # schema
            THEN [@ EXCEPT !.pc = "lock", !.schema = schema, !.found = FALSE,
                           !.ret = <<>>]
            ELSE [@ EXCEPT !.schema = schema, !.found = FALSE, !.ret = <<FALSE>>,
                           !.made = @ + 1]]
    /\ UNCHANGED <<TableDB, master, skipedSchemaList, skipedSchemaLock, logged,
                   loopVars, waitVars>>

\* FilterLock taking the lock while another caller holds it.
FilterLockNoWait(p) ==
    /\ calls[p].pc = "lock"
    /\ skipedSchemaLock' = p
    /\ calls' = [calls EXCEPT ![p].pc = "scan", ![p].found = FALSE]
    /\ UNCHANGED <<TableDB, master, skipedSchemaList, logged, loopVars, waitVars>>

\* Lines 114-115: skipedSchemaLock.Lock() and found := false.
FilterLock(p) ==
    /\ calls[p].pc = "lock"
    /\ skipedSchemaLock = NoCaller
    /\ skipedSchemaLock' = p
    /\ calls' = [calls EXCEPT ![p].pc = "scan", ![p].found = FALSE]
    /\ UNCHANGED <<TableDB, master, skipedSchemaList, logged, loopVars, waitVars>>

\* Lines 116-121: the search of skipedSchemaList.
FilterScan(p) ==
    /\ calls[p].pc = "scan"
    /\ LET found == \E i \in 1..Len(skipedSchemaList) :
                        skipedSchemaList[i] = calls[p].schema
       IN  calls' = [calls EXCEPT ![p].found = found,
                                  ![p].pc = IF found THEN "unlock" ELSE "append"]
    /\ UNCHANGED <<TableDB, master, skipedSchemaList, skipedSchemaLock, logged,
                   loopVars, waitVars>>

\* Lines 122-124: the schema not found is appended.
FilterAppend(p) ==
    /\ calls[p].pc = "append"
    /\ skipedSchemaList' = Append(skipedSchemaList, calls[p].schema)
    /\ calls' = [calls EXCEPT ![p].pc = "unlock"]
    /\ UNCHANGED <<TableDB, master, skipedSchemaLock, logged, loopVars, waitVars>>

\* Line 125: skipedSchemaLock.Unlock().
FilterUnlock(p) ==
    /\ calls[p].pc = "unlock"
    /\ skipedSchemaLock' = NoCaller
    /\ calls' = [calls EXCEPT ![p].pc = IF calls[p].found THEN "return" ELSE "log"]
    /\ UNCHANGED <<TableDB, master, skipedSchemaList, logged, loopVars, waitVars>>

\* Lines 126-128: the note, logged after the lock is released.
FilterLog(p) ==
    /\ calls[p].pc = "log"
    /\ logged' = Append(logged, calls[p].schema)
    /\ calls' = [calls EXCEPT ![p].pc = "return"]
    /\ UNCHANGED <<TableDB, master, skipedSchemaList, skipedSchemaLock, loopVars,
                   waitVars>>

\* FilterReturn giving true only to the calls that found the schema listed.
FilterReturnFound(p) ==
    /\ calls[p].pc = "return"
    /\ calls' = [calls EXCEPT ![p].pc = "idle", ![p].ret = <<calls[p].found>>,
                              ![p].made = @ + 1]
    /\ UNCHANGED <<TableDB, master, skipedSchemaList, skipedSchemaLock, logged,
                   loopVars, waitVars>>

\* Line 129: return true.
FilterReturn(p) ==
    /\ calls[p].pc = "return"
    /\ calls' = [calls EXCEPT ![p].pc = "idle", ![p].ret = <<TRUE>>,
                              ![p].made = @ + 1]
    /\ UNCHANGED <<TableDB, master, skipedSchemaList, skipedSchemaLock, logged,
                   loopVars, waitVars>>

NextFilter ==
    \E p \in Callers :
        \/ FilterCall(p)
        \/ FilterLock(p)
        \/ FilterScan(p)
        \/ FilterAppend(p)
        \/ FilterUnlock(p)
        \/ FilterLog(p)
        \/ FilterReturn(p)

SpecFilter == Init /\ [][NextFilter]_vars

\* ------------------------------------------ WaitUntilPos, CatchMasterPos
\* Time is counted in polling intervals; it passes while the caller sleeps.
\* The positions a caller waits for and the tracker moves to.
WaitTargets == {Position(StartPos.name, StartPos.pos + 1),
                Position(StartPos.name + 1, StartPos.pos)}

\* Lines 165-169: the timeout, 60 seconds when none is given, and the timer.
WaitStart(target, given) ==
    LET seconds == IF given <= 0 THEN DefaultWaitSeconds ELSE given
    IN  [IdleWaiter EXCEPT !.pc = "select", !.target = target, !.given = given,
                           !.made = now, !.fires = now + seconds * PollsPerSecond,
                           !.inTime = Compare(master, target) >= 0]

\* WaitUntilPosCall with the timer made of the timeout as it is given.
WaitUntilPosCallNoDefault ==
    /\ waiter.pc = "idle"
    /\ \E target \in WaitTargets, given \in -1..MaxWaitSeconds :
        waiter' = [WaitStart(target, given) EXCEPT
                        !.fires = now + (IF given <= 0 THEN 0 ELSE given) * PollsPerSecond]
    /\ UNCHANGED <<TableDB, master, skipedSchemaList, now, loopVars, filterVars>>

\* Lines 164-169: WaitUntilPos(pos, timeout) up to the loop.
WaitUntilPosCall ==
    /\ waiter.pc = "idle"
    /\ \E target \in WaitTargets, given \in -1..MaxWaitSeconds :
        waiter' = WaitStart(target, given)
    /\ UNCHANGED <<TableDB, master, skipedSchemaList, now, loopVars, filterVars>>

\* Lines 187-197: CatchMasterPos(timeout): SHOW MASTER STATUS fails, or names
\* the position WaitUntilPos is called with.
CatchMasterPos ==
    /\ waiter.pc = "idle"
    /\ \E executed \in BOOLEAN, target \in WaitTargets, given \in -1..MaxWaitSeconds :
        waiter' = IF executed THEN WaitStart(target, given)
                  ELSE [IdleWaiter EXCEPT !.pc = "done", !.given = given,
                                          !.ret = "execute"]
    /\ UNCHANGED <<TableDB, master, skipedSchemaList, now, loopVars, filterVars>>

\* Lines 171-172: the timer has fired; the select takes its case.
WaitTimerFired ==
    /\ waiter.pc = "select"
    /\ now >= waiter.fires
    /\ waiter' = [waiter EXCEPT !.pc = "done", !.ret = "timeout"]
    /\ UNCHANGED <<TableDB, master, skipedSchemaList, now, loopVars, filterVars>>

\* Lines 173-180: the timer has not fired; the default case reads the
\* tracker and returns nil or goes to sleep.
WaitPoll ==
    /\ waiter.pc = "select"
    /\ now < waiter.fires
    /\ waiter' = [waiter EXCEPT
                    !.curpos = master,
                    !.reads = @ + 1,
                    !.pc = IF Compare(master, waiter.target) >= 0 THEN "done" ELSE "sleep",
                    !.ret = IF Compare(master, waiter.target) >= 0 THEN "nil" ELSE "none"]
    /\ UNCHANGED <<TableDB, master, skipedSchemaList, now, loopVars, filterVars>>

\* Line 179: time.Sleep(100 * time.Millisecond).
WaitSleep ==
    /\ waiter.pc = "sleep"
    /\ now' = now + 1
    /\ waiter' = [waiter EXCEPT !.pc = "select"]
    /\ UNCHANGED <<TableDB, master, skipedSchemaList, loopVars, filterVars>>

\* Line 94, in the goroutine of the sync loop: the tracker moves forward
\* while the caller waits.
TrackerMoves ==
    /\ \E p \in WaitTargets :
        /\ Compare(master, p) < 0
        /\ master' = p
        /\ waiter' = [waiter EXCEPT !.inTime =
                        \/ @
                        \/ /\ waiter.pc \in {"select", "sleep"}
                           /\ now < waiter.fires
                           /\ Compare(p, waiter.target) >= 0]
    /\ UNCHANGED <<TableDB, skipedSchemaList, now, loopVars, filterVars>>

NextWait ==
    \/ WaitUntilPosCall
    \/ CatchMasterPos
    \/ WaitTimerFired
    \/ WaitPoll
    \/ WaitSleep

\* The caller against a tracker that never moves.
SpecWaitStuck == Init /\ [][NextWait]_vars /\ WF_vars(NextWait)

NextWaitMoving == NextWait \/ TrackerMoves

\* The caller against a tracker the sync loop moves.
SpecWait == Init /\ [][NextWaitMoving]_vars

\* ================================================================ claims
\* The statements of the stream the pattern matches.
AlterStatements == {QueryAlter, QueryAlterQualified}

\* The event types handleRowsEvent knows.
SupportedRowsTypes ==
    {WRITE_ROWS_EVENTv1, WRITE_ROWS_EVENTv2, DELETE_ROWS_EVENTv1,
     DELETE_ROWS_EVENTv2, UPDATE_ROWS_EVENTv1, UPDATE_ROWS_EVENTv2}

\* The configured scope leaves the schema out.
OutOfScope(schema) == TableDB # NoText /\ TableDB # schema

\* The last iteration received an event of this kind.
Got(kind) == iter.got = "event" /\ iter.ev.kind = kind

\* The last iteration received an event whose branch leads to the save step.
SavingEvent ==
    \/ Got("Rotate")
    \/ Got("XID")
    \/ Got("Query") /\ iter.ev.query \in AlterStatements

RECURSIVE Pow2(_)
Pow2(n) == IF n = 0 THEN 1 ELSE 2 * Pow2(n - 1)

\* C1: the tracker is never asked to persist and the sink is never written
\* while a row-change transaction is open (a row change was dispatched and no
\* XIDEvent was processed since), also when a RotateEvent or an ALTER TABLE
\* QueryEvent arrives in between.
C1_NoSaveInsideTransaction ==
    (iter.save # <<>> \/ iter.savePos # <<>>) => ~txOpen

\* C2: every in-scope RowsEvent of the stream that ends at or before the last
\* persisted position has been dispatched, and so has, across the stopped
\* sessions and the running one, every in-scope RowsEvent the running session
\* is past.
C2_NoRowLostPastSave ==
    \A i \in 1..Len(stream) :
        (stream[i].kind = "Rows" /\ ~OutOfScope(stream[i].schema)) =>
            /\ Compare(StreamPos(stream, i), persisted) <= 0 => i \in dispatched
            /\ (i <= cursor /\ ~(pc = "returned" /\ i = cursor)) => i \in dispatched

\* C2's case: a resumed session dispatches again a row change that an
\* earlier session had received, because the position persisted is before it.
C2_Witness ==
    /\ session = 1
    /\ pc = "running"
    /\ iter.travel
    /\ cursor \in dispatched
    /\ cursor < Len(stream)
    /\ Compare(persisted, StreamPos(stream, cursor)) < 0

\* C3: an iteration reaches the save step (master.Update, then master.Save)
\* exactly when it received a RotateEvent, an XIDEvent or a QueryEvent with an
\* ALTER TABLE statement; any other iteration calls neither, does not write
\* the sink, and leaves the tracker, the durable position and the sink alone.
C3_SaveStepOnlyForRotateXidAlter ==
    /\ [](/\ (iter.update # <<>>) <=> SavingEvent
          /\ (iter.save # <<>>) <=> SavingEvent
          /\ ~SavingEvent => iter.savePos = <<>>)
    /\ [][(iter'.update = <<>> /\ iter'.save = <<>>) =>
             UNCHANGED <<master, persisted, sink>>]_vars

\* C3's case: a dispatched RowsEvent has moved the loop's position past the
\* tracker's without a save step.
C3_Witness ==
    /\ Got("Rows")
    /\ iter.travel
    /\ iter.update = <<>>
    /\ iter.save = <<>>
    /\ Compare(master, StartPos) > 0
    /\ Compare(master, pos) < 0

\* C4: master.Save is called with forced=TRUE for a RotateEvent and an ALTER
\* TABLE QueryEvent and with forced=FALSE for an XIDEvent, whatever came
\* before; so the throttle never keeps a Rotate from persisting, and an
\* XIDEvent inside the throttle window does not persist.
C4_ForcedFlag ==
    iter.save # <<>> =>
        /\ iter.save = <<Got("Rotate") \/ Got("Query")>>
        /\ (Got("Rotate") /\ ~iter.saved.failed) => (iter.saved.did /\ persisted = master)
        /\ (Got("XID") /\ iter.inWindow) => ~iter.saved.did

\* C4's case: an XIDEvent right after a RotateEvent, inside the throttle
\* window: not forced, not persisted.
C4_Witness ==
    /\ Got("XID")
    /\ cursor = 2
    /\ stream[1].kind = "Rotate"
    /\ iter.inWindow
    /\ iter.save = <<FALSE>>
    /\ ~iter.saved.did
    /\ persisted # master

\* C5: what master.Pos() returns never goes back in the (file name, offset)
\* order during a run of the loop.
C5_PositionMonotonic ==
    [][Compare(master, master') <= 0]_vars

\* C5's case: a RotateEvent has moved the tracker to the start of the next
\* file, an offset below the one the tracker had.
C5_Witness ==
    /\ Got("Rotate")
    /\ cursor = 2
    /\ stream[1].kind = "XID"
    /\ master.name = 1
    /\ master.pos < stream[1].logPos

\* C6: the wait given to GetEvent is 1 second times 2^k, k the number of
\* consecutive DeadlineExceeded results right before the pull.
C6_WaitDoublesPerTimeout ==
    iter.got # "none" => iter.wait = Second * Pow2(iter.k)

\* C7: SavePos is called exactly when master.Save persisted without error and
\* a master-info handler is registered, with the pair given to master.Update;
\* an error of master.Save or of SavePos ends the loop with that error.
C7_SinkMirrorsPersist ==
    /\ (iter.savePos # <<>>) <=>
           (iter.save # <<>> /\ iter.saved.did /\ ~iter.saved.failed /\ iter.handler)
    /\ iter.savePos # <<>> => iter.savePos = iter.update
    /\ (iter.savePos # <<>> /\ ~iter.sinkFailed) => sink = iter.update
    /\ iter.saved.failed => (pc = "returned" /\ err = "save" /\ ~iter.saved.did)
    /\ iter.sinkFailed => (pc = "returned" /\ err = "savepos")
    /\ (iter.save # <<>> /\ ~iter.saved.failed /\ ~iter.sinkFailed) => pc = "running"

\* C7's case: an XIDEvent's save persisted and the sink got the same pair.
C7_Witness ==
    /\ Got("XID")
    /\ iter.saved.did
    /\ iter.savePos = <<master>>
    /\ sink = <<persisted>>
    /\ pc = "running"

\* C8, as stated: every RowsEvent of an unsupported event type ends the loop
\* with an error, in scope or out of scope.
C8_UnsupportedAlwaysFatal ==
    (Got("Rows") /\ iter.ev.etype \notin SupportedRowsTypes) =>
        (pc = "returned" /\ err # "nil")

\* C8, amended: a RowsEvent of an unsupported event type whose schema the
\* filter does not skip ends the loop with an error, whether or not its table
\* metadata resolves; one whose schema is skipped is dropped and the loop
\* goes on.
C8_UnsupportedInScopeFatal ==
    (Got("Rows") /\ iter.ev.etype \notin SupportedRowsTypes) =>
        IF OutOfScope(iter.ev.schema)
        THEN pc = "running" /\ err = "nil" /\ iter.getTable = <<>>
        ELSE pc = "returned" /\ err \in {"resolve", "unsupported"} /\ ~iter.travel

\* C8's case: an in-scope RowsEvent of an unsupported type, its table resolved.
C8_Witness ==
    /\ Got("Rows")
    /\ iter.ev.etype = WRITE_ROWS_EVENTv0
    /\ ~OutOfScope(iter.ev.schema)
    /\ pc = "returned"
    /\ err = "unsupported"

\* C9: a RowsEvent of a skipped schema resolves no table, builds no record,
\* invokes no handler, neither updates nor saves the tracker, and the loop
\* goes on; the loop's offset is the event's LogPos, and the position a later
\* save step gives master.Update is not behind the skipped event.
C9_SkippedRowsOnlyAdvance ==
    /\ []((Got("Rows") /\ OutOfScope(iter.ev.schema)) =>
            /\ iter.getTable = <<>>
            /\ iter.record = NoRecord
            /\ ~iter.travel
            /\ iter.update = <<>> /\ iter.save = <<>> /\ iter.savePos = <<>>
            /\ pc = "running"
            /\ pos.pos = iter.ev.logPos)
    /\ [](iter.update # <<>> =>
            \A i \in 1..(cursor - 1) :
                (stream[i].kind = "Rows" /\ OutOfScope(stream[i].schema)) =>
                    Compare(StreamPos(stream, i), iter.update[1]) <= 0)
    /\ [][(iter'.got = "event" /\ iter'.ev.kind = "Rows"
              /\ OutOfScope(iter'.ev.schema)) =>
             UNCHANGED <<master, persisted, sink, dispatched>>]_vars

\* C9's case: a save step right after a skipped RowsEvent.
C9_Witness ==
    /\ cursor = 2
    /\ stream[1].kind = "Rows"
    /\ OutOfScope(stream[1].schema)
    /\ Got("XID")
    /\ iter.update = <<Position(0, 2)>>

\* C10: the loop returns only with an error, and only for a failure of the
\* transport, of the table lookup, of an unsupported row type, of a handler,
\* of master.Save or of SavePos; a DeadlineExceeded neither ends the loop nor
\* dispatches, updates or saves.
C10_ReturnsOnlyOnFatalError ==
    /\ [](/\ pc = "running" => err = "nil"
          /\ (pc = "returned" /\ iter.got # "none") =>
                /\ err \in {"transport", "resolve", "unsupported", "handler",
                            "save", "savepos"}
                /\ err = "transport" <=> iter.got = "error"
                /\ err \in {"resolve", "unsupported", "handler"} => Got("Rows")
                /\ err = "save" <=> iter.saved.failed
                /\ err = "savepos" <=> iter.sinkFailed
          /\ iter.got = "timeout" =>
                /\ pc = "running"
                /\ iter.getTable = <<>> /\ ~iter.travel
                /\ iter.update = <<>> /\ iter.save = <<>> /\ iter.savePos = <<>>)
    /\ [][iter'.got = "timeout" =>
             UNCHANGED <<pc, err, master, persisted, sink, dispatched, cursor, pos>>]_vars

\* C10's case: two DeadlineExceeded results in a row and the loop still runs.
C10_Witness ==
    /\ iter.got = "timeout"
    /\ iter.k = 1
    /\ consec = 2
    /\ pc = "running"

\* What ClearTableCache is to be called with for the statements of the stream:
\* the schema the statement names, the event's own when it names none.
ClearedFor(e) ==
    IF e.query = QueryAlterQualified THEN <<SchemaApp, TableT>>
    ELSE <<e.schema, TableT>>

\* C11: an iteration that received a QueryEvent whose statement matches the
\* ALTER TABLE pattern calls ClearTableCache exactly once, with the schema the
\* statement names (the event's own schema when it names none) and the table,
\* and then runs the save step with forced = TRUE; an iteration that received
\* a QueryEvent whose statement does not match calls neither ClearTableCache
\* nor master.Update and leaves the tracker as it was; no other iteration
\* calls ClearTableCache.
C11_AlterClearsCacheThenForcedSave ==
    /\ [](/\ (Got("Query") /\ iter.ev.query \in AlterStatements) =>
                /\ iter.cleared = <<ClearedFor(iter.ev)>>
                /\ iter.update # <<>>
                /\ iter.save = <<TRUE>>
          /\ (Got("Query") /\ iter.ev.query \notin AlterStatements) =>
                /\ iter.cleared = <<>>
                /\ iter.update = <<>>
                /\ iter.save = <<>>
          /\ ~Got("Query") => iter.cleared = <<>>)
    /\ [][(Got("Query") /\ iter.ev.query \notin AlterStatements)' =>
            UNCHANGED <<master, persisted, sink>>]_vars

\* An unqualified ALTER TABLE arrived in an event of another schema and the
\* cache entry of that schema's table was cleared before a forced save.
C11_Witness ==
    /\ Got("Query")
    /\ iter.ev.query = QueryAlter
    /\ iter.ev.schema = SchemaOther
    /\ iter.cleared = <<<<SchemaOther, TableT>>>>
    /\ iter.save = <<TRUE>>

\* The log file the stream was in before the event the last iteration received.
FileBefore == StreamPos(stream, cursor - 1).name

\* C18: the position handed to master.Update at a save step is the position
\* of the stream: the current log file name with the header's LogPos for an
\* XIDEvent or an ALTER TABLE QueryEvent, the payload's NextLogName and
\* Position for a RotateEvent; the loop's position has the header's LogPos of
\* every other event it received, also when the event's handler failed; and
\* the file name of the loop's position and of the tracker changes only in an
\* iteration that received a RotateEvent.
C18_UpdateGetsStreamPosition ==
    /\ [](/\ Got("Rotate") =>
                /\ iter.update = <<Position(iter.ev.nextLogName, iter.ev.position)>>
                /\ pos = Position(iter.ev.nextLogName, iter.ev.position)
          /\ (Got("XID") \/ (Got("Query") /\ iter.ev.query \in AlterStatements)) =>
                iter.update = <<Position(FileBefore, iter.ev.logPos)>>
          /\ (iter.got = "event" /\ ~Got("Rotate")) =>
                pos = Position(FileBefore, iter.ev.logPos)
          /\ iter.update # <<>> => iter.update = <<StreamPos(stream, cursor)>>)
    /\ [][(pos'.name # pos.name \/ master'.name # master.name) => Got("Rotate")']_vars

\* An XIDEvent in the second log file: the update carries that file's name
\* and the event's offset.
C18_Witness ==
    /\ Got("XID")
    /\ cursor = 2
    /\ stream[1].kind = "Rotate"
    /\ stream[1].nextLogName = 1
    /\ iter.update = <<Position(1, iter.ev.logPos)>>
    /\ master = Position(1, iter.ev.logPos)

\* The errors of an iteration that ends before the save step: GetEvent's
\* (line 47) and the three of handleRowsEvent (line 72).
FatalBeforeSave == {"transport", "resolve", "unsupported", "handler"}

\* The session ended in an iteration that failed before the save step.
EndedBeforeSave == pc = "returned" /\ err \in FatalBeforeSave

\* C19 as stated: the iteration that ended the session with an error of the
\* transport, of the table lookup, of an unsupported row type or of a
\* handler called neither master.Update nor master.Save nor SavePos, and the
\* tracker's position and the persisted position are both the ones the last
\* persisting iteration left, so the two are the same position.
C19_TerminatedAtLastPersist ==
    EndedBeforeSave =>
        /\ iter.update = <<>>
        /\ iter.save = <<>>
        /\ iter.savePos = <<>>
        /\ master = persisted

\* C19, amended: such an iteration calls neither master.Update nor
\* master.Save nor SavePos and leaves the tracker, the persisted position and
\* the sink as they were; the persisted position changes only in an iteration
\* whose master.Save persisted, the tracker only in an iteration that called
\* master.Update, and the persisted position is never past the tracker's.
C19_FatalIterationSavesNothing ==
    /\ [](/\ EndedBeforeSave =>
                /\ iter.update = <<>>
                /\ iter.save = <<>>
                /\ iter.savePos = <<>>
          /\ Compare(persisted, master) <= 0)
    /\ [][/\ EndedBeforeSave' => UNCHANGED <<master, persisted, sink>>
          /\ persisted' # persisted => (iter'.saved.did /\ persisted' = master')
          /\ master' # master => iter'.update = <<master'>>]_vars

\* The session ended on a failed pull after an XIDEvent whose save was
\* throttled: the tracker is past the persisted position.
C19_Witness ==
    /\ pc = "returned"
    /\ err = "transport"
    /\ cursor = 1
    /\ stream[1].kind = "XID"
    /\ master = StreamPos(stream, 1)
    /\ persisted = StartPos

\* C20: when the loop runs without error, has received every event of the
\* stream and the stream has been quiet for a whole pull, the position
\* master.Pos() returns is at or after the end of the last received event,
\* whatever the kind of that event, so that WaitUntilPos for that position
\* finds it reached.
C20_TrackerCatchesUpWhenQuiet ==
    (pc = "running" /\ cursor = Len(stream) /\ iter.got = "timeout") =>
        Compare(master, StreamPos(stream, cursor)) >= 0

\* ------------------------------------------- one event, every input of it
\* The loop, started, with the events s of the binlog ahead of it.
InitWith(s) ==
    /\ pc = "running"
    /\ err = "nil"
    /\ TableDB \in {NoText, SchemaApp}
    /\ stream = s
    /\ cursor = 0
    /\ pos = StartPos
    /\ timeout = Second
    /\ forceSavePos = FALSE
    /\ posSaved = FALSE
    /\ master = StartPos
    /\ persisted = StartPos
    /\ sink = <<>>
    /\ skipedSchemaList = <<>>
    /\ dispatched = {}
    /\ txOpen = FALSE
    /\ consec = 0
    /\ session = 0
    /\ iter = NoIter
    /\ NoCalls
    /\ NoWait

\* The RowsEvents handleRowsEvent is given: every event type of the switch
\* and one more, two schemas, two tables, one row or two.
TableU == <<"u">>
RowsTwo == << <<1, "a">>, <<2, "b">> >>
RowsInputs ==
    {BinlogEvent("Rows", StartPos.pos + 1, t, 0, 0, sc, tb, rows, NoQuery) :
        t \in SupportedRowsTypes \cup {WRITE_ROWS_EVENTv0},
        sc \in Schemas, tb \in {TableT, TableU}, rows \in {Rows, RowsTwo}}

InitRows == \E e \in RowsInputs : InitWith(<<e>>)

\* The iteration of the loop that receives the RowsEvent.
SpecRows == InitRows /\ [][OnRowsEvent]_vars

\* The action the claim gives for an event type.
ActionOf(etype) ==
    CASE etype = WRITE_ROWS_EVENTv1 -> InsertAction
      [] etype = WRITE_ROWS_EVENTv2 -> InsertAction
      [] etype = DELETE_ROWS_EVENTv1 -> DeleteAction
      [] etype = DELETE_ROWS_EVENTv2 -> DeleteAction
      [] etype = UPDATE_ROWS_EVENTv1 -> UpdateAction
      [] etype = UPDATE_ROWS_EVENTv2 -> UpdateAction

\* C16: for a RowsEvent of a schema in scope whose table resolved and whose
\* type is one of WRITE_ROWS, DELETE_ROWS, UPDATE_ROWS (v1 or v2),
\* handleRowsEvent dispatches one change record: its action is Insert,
\* Delete, Update by the type, its table is the metadata GetTable returned for
\* the event's schema and table, its rows are the event's rows; nothing else
\* is dispatched.
C16_RowsTypeGivesAction ==
    Got("Rows") =>
        /\ (/\ ~OutOfScope(iter.ev.schema)
            /\ err # "resolve"
            /\ iter.ev.etype \in SupportedRowsTypes) =>
                /\ iter.travel
                /\ iter.getTable = <<<<iter.ev.schema, iter.ev.table>>>>
                /\ iter.record = [table |-> GetTable(iter.ev.schema, iter.ev.table),
                                  action |-> ActionOf(iter.ev.etype),
                                  rows |-> iter.ev.rows]
        /\ iter.travel =>
                /\ ~OutOfScope(iter.ev.schema)
                /\ iter.ev.etype \in SupportedRowsTypes

\* A DELETE_ROWS_EVENTv2 with two rows for table u was dispatched as a Delete
\* of those rows.
C16_Witness ==
    /\ Got("Rows")
    /\ iter.ev.etype = DELETE_ROWS_EVENTv2
    /\ iter.ev.table = TableU
    /\ iter.travel
    /\ iter.record.action = DeleteAction
    /\ iter.record.rows = RowsTwo
    /\ pc = "running"

\* ------------------------------------------ one statement, every form of it
\* ALTER TABLE app.t X;  Alter Table `t` X;  ALTER TABLE  t X;  DROP TABLE t;  RENAME TABLE t TO u;  TRUNCATE TABLE t
StmtUnquotedQualified ==
    <<"A", "L", "T", "E", "R", " ", "T", "A", "B",
      "L", "E", " ", "a", "p", "p", ".", "t", " ", "X">>
StmtQuoted ==
    <<"A", "l", "t", "e", "r", " ", "T", "a",
      "b", "l", "e", " ", BackQuote, "t", BackQuote, " ", "X">>
StmtTwoBlanks == <<"A", "L", "T", "E", "R", " ", "T", "A", "B", "L", "E", " ", " ", "t", " ", "X">>
StmtDrop == <<"D", "R", "O", "P", " ", "T", "A", "B", "L", "E", " ", "t">>
StmtRename ==
    <<"R", "E", "N", "A", "M", "E", " ", "T", "A",
      "B", "L", "E", " ", "t", " ", "T", "O", " ", "u">>
StmtTruncate == <<"T", "R", "U", "N", "C", "A", "T", "E", " ", "T", "A", "B", "L", "E", " ", "t">>

\* The statements expAlterTable is applied to.
Statements ==
    StreamQueries \cup {StmtUnquotedQualified, StmtQuoted, StmtTwoBlanks,
                        StmtDrop, StmtRename, StmtTruncate}

QueryInputs ==
    {BinlogEvent("Query", StartPos.pos + 1, NoString, 0, 0, sc, NoText, <<>>, q) :
        sc \in Schemas, q \in Statements}

InitQuery == \E e \in QueryInputs : InitWith(<<e>>)

\* The iteration of the loop that receives the QueryEvent.
SpecQuery == InitQuery /\ [][OnQueryEvent]_vars

\* What the claim gives for each statement: the schema, empty when the
\* statement names none, and the table of an ALTER TABLE; no match otherwise.
Extracted(q) ==
    CASE q \in {QueryAlter, StmtQuoted, StmtTwoBlanks} -> <<NoText, TableT>>
      [] q \in {QueryAlterQualified, StmtUnquotedQualified} -> <<SchemaApp, TableT>>
      [] q \in {QueryCreate, StmtDrop, StmtRename, StmtTruncate} -> <<>>

\* C17: expAlterTable applied to the statement of a received QueryEvent
\* gives the schema and the table of an ALTER TABLE statement, the name in
\* back quotes or not, with a schema qualifier or without (the schema empty
\* then), the keywords in any case, and gives no match for a CREATE, DROP,
\* RENAME or TRUNCATE statement.
C17_DetectorExtractsSchemaAndTable ==
    Got("Query") => expAlterTable(iter.ev.query) = Extracted(iter.ev.query)

\* What the claim gives for a schema: false without a scope, false for the
\* schema of the scope, true for any other.
ScopeResult(schema) ==
    IF TableDB = NoText THEN FALSE
    ELSE IF schema = TableDB THEN FALSE
    ELSE TRUE

\* C12: every call of isSkipedSchema returns false when no scope is
\* configured, false for the schema of the scope and true for any other
\* schema, whatever skipedSchemaList holds and however many calls came
\* before, for the concurrent callers and for the call the row handler makes.
C12_ResultDependsOnScopeOnly ==
    /\ \A p \in Callers :
        calls[p].ret # <<>> => calls[p].ret = <<ScopeResult(calls[p].schema)>>
    /\ \A schema \in FilterSchemas :
        isSkipedSchema(skipedSchemaList, schema).ret = ScopeResult(schema)

\* A caller's second call, for a schema it found listed, returned true as
\* the calls that listed it did.
C12_Witness ==
    \E p \in Callers :
        /\ calls[p].made = 2
        /\ calls[p].pc = "idle"
        /\ calls[p].schema = SchemaOther
        /\ calls[p].found
        /\ calls[p].ret = <<TRUE>>
        /\ Len(skipedSchemaList) = 2

\* How many times x is in seq.
Count(seq, x) == Cardinality({i \in 1..Len(seq) : seq[i] = x})

\* The callers that have listed the schema and not yet logged its note.
AboutToLog(schema) ==
    {p \in Callers : /\ calls[p].pc \in {"unlock", "log"}
                     /\ ~calls[p].found
                     /\ calls[p].schema = schema}

\* C13: for any interleaving of the callers' steps, skipedSchemaList only
\* grows (every step leaves the entries it had in place), holds out-of-scope
\* schemas only and each at most once, and the note of a schema is logged
\* once: by the call that listed it, after it released the lock, and by no
\* other call.
C13_ListedOnceLoggedOnce ==
    /\ [](/\ \A schema \in FilterSchemas :
                /\ Count(skipedSchemaList, schema) <= 1
                /\ Count(skipedSchemaList, schema) = 1 => ScopeResult(schema)
                /\ Count(logged, schema) + Cardinality(AboutToLog(schema))
                        = Count(skipedSchemaList, schema)
          /\ \A p \in Callers :
                calls[p].ret = <<TRUE>> => Count(skipedSchemaList, calls[p].schema) = 1)
    /\ [][/\ Len(skipedSchemaList') >= Len(skipedSchemaList)
          /\ SubSeq(skipedSchemaList', 1, Len(skipedSchemaList)) = skipedSchemaList
          /\ Len(logged') >= Len(logged)
          /\ SubSeq(logged', 1, Len(logged)) = logged]_vars

\* Two calls for the same schema at the same time: one has listed it and
\* released the lock but not logged yet, the other has found it listed.
C13_Witness ==
    /\ calls["c1"].pc = "log"
    /\ calls["c2"].pc = "return"
    /\ calls["c2"].found
    /\ calls["c1"].schema = calls["c2"].schema
    /\ logged = <<>>

\* The caller is inside WaitUntilPos.
Waiting == waiter.pc \in {"select", "sleep"}

\* WaitUntilPos has returned (CatchMasterPos did not fail before calling it).
WaitReturned == waiter.pc = "done" /\ waiter.ret \in {"nil", "timeout"}

\* C14: WaitUntilPos returns nil only after reading a position at or after
\* the target; it returns nil whenever the tracker was at or after the target
\* at a time the timer had not fired; and it returns the timeout error only
\* when the tracker was never there before the timer fired.
C14_ReturnsByWhicheverComesFirst ==
    WaitReturned =>
        /\ waiter.ret = "nil" => Compare(waiter.curpos, waiter.target) >= 0
        /\ waiter.inTime => waiter.ret = "nil"
        /\ waiter.ret = "timeout" => ~waiter.inTime

\* C15: against a tracker that stays below the target, WaitUntilPos never
\* returns nil, and every call returns: with the timeout error, after at
\* least one read of the tracker, when exactly the timeout has passed since
\* the call, the timeout being the seconds given, 60 when the value given is
\* 0 or less.
C15_TimesOutAfterTheTimeout ==
    /\ [](/\ waiter.ret # "nil"
          /\ WaitReturned =>
                /\ waiter.ret = "timeout"
                /\ waiter.reads >= 1
                /\ now - waiter.made =
                    (IF waiter.given <= 0 THEN 60 ELSE waiter.given) * PollsPerSecond)
    /\ (Waiting ~> WaitReturned)

\* A call given no timeout returned the timeout error after 60 seconds of
\* polling.
C15_Witness ==
    /\ WaitReturned
    /\ waiter.given = 0
    /\ waiter.ret = "timeout"
    /\ waiter.reads = 60 * PollsPerSecond
    /\ Compare(master, waiter.target) < 0

====
